---- MODULE Spec2Model ----
(***************************************************************************)
(* Luxe Systems / DukaSmart stock management server.                       *)
(*                                                                         *)
(* The model covers the REST server (registerRoutes, the auth middleware,  *)
(* the in-memory notification feed) and the storage layer's transactional  *)
(* stock mutators (DatabaseStorage.createPurchase / createSale /           *)
(* createStockMovement).  A request is a task that runs from one `await`   *)
(* to the next; every database statement is one step, so the steps of two  *)
(* requests interleave exactly where the event loop lets them.             *)
(*                                                                         *)
(* Tables are the rows of the relational store.  The statements issued     *)
(* through `db` outside a transaction autocommit; the statements of a      *)
(* db.transaction(...) callback become visible at COMMIT, and its UPDATE   *)
(* holds the product's row lock until then (the store's default isolation, *)
(* READ COMMITTED: no isolation level is passed to db.transaction).        *)
(***************************************************************************)
EXTENDS Integers, Sequences, FiniteSets, TLC

(***************************************************************************)
(* Bounds of the model.                                                    *)
(***************************************************************************)
NClients == 2

MaxRequests == 3

MaxProducts == 1

MaxQty == 2

MaxTicks == 1
MaxCategories == 2

(***************************************************************************)
(* Program constants.                                                      *)
(***************************************************************************)
\* products.lowStockThreshold default
DefaultLowStockThreshold == 5

\* the literal the route handlers compare the remaining stock with
LowStockLiteral == 5

(***************************************************************************)
(* Input domains.                                                          *)
(***************************************************************************)
Clients == 1..NClients

ProductIds == 1..MaxProducts

\* quantities a request body can carry: the insert schemas accept any integer
QtyInputs == {-1} \cup (1..MaxQty)

StockInputs == {0, 2}

ThresholdInputs == {1, DefaultLowStockThreshold}

PriceInputs == {3}

MovementTypes == {"in", "out", "adj"}

Usernames == {"admin", "emp", "eve"}

Emails == {"emp@x", "eve@x"}

Passwords == {"secret", "wrong"}

Roles == {"admin", "employee"}

PermissionChoices == {{}, {"sales"}, {"stock_in", "view_reports"}}

(***************************************************************************)
(* State.                                                                  *)
(***************************************************************************)
VARIABLES
    users,            \* users table: sequence of rows, users[i].id = i
    sessions,         \* session store: the user id held by each client's cookie, 0 = none
    products,         \* products table: [ProductIds -> row], row.exists = FALSE when absent
    productSeq,       \* products.id serial
    rowLock,          \* per product row: the client whose open transaction holds its lock, 0 = free
    purchases,        \* purchases table, in insertion order
    sales,            \* sales table, in insertion order
    stockMovements,   \* stock_movements table, in insertion order
    notifications,    \* the notification feed array
    now,              \* the wall clock, Date.now()
    req,              \* per client: the request in flight, or the one last answered
    nreq,             \* requests started so far (category creation is bounded by its tables)
    mainCategories,   \* main_categories table, in insertion order: row i has id i
    subCategories     \* sub_categories table, in insertion order: row i has id i

vars == <<users, sessions, products, productSeq, rowLock, purchases, sales,
          stockMovements, notifications, now, req, nreq, mainCategories,
          subCategories>>

categories == <<mainCategories, subCategories>>

records == <<purchases, sales, stockMovements>>

catalog == <<products, productSeq>>

(***************************************************************************)
(* Rows.                                                                   *)
(***************************************************************************)
NoProduct ==
    [exists |-> FALSE, stockQuantity |-> 0, lowStockThreshold |-> 0, subCategoryId |-> 0]

ProductRow(stock, threshold, subCategoryId) ==
    [exists |-> TRUE, stockQuantity |-> stock, lowStockThreshold |-> threshold,
     subCategoryId |-> subCategoryId]

MainCategoryRow(name) == [name |-> name]

SubCategoryRow(mainCategoryId) == [mainCategoryId |-> mainCategoryId]

hashPassword(password) == <<"bcrypt", password>>

verifyPassword(password, hash) == hash = <<"bcrypt", password>>

UserRow(username, email, password, role, permissions, isActive) ==
    [username |-> username, email |-> email, passwordHash |-> hashPassword(password),
     role |-> role, permissions |-> permissions, isActive |-> isActive]

\* currentStock is the data.currentStock of a low_stock notification, 0 for the others
Notification(id, type, read, createdAt) ==
    [id |-> id, type |-> type, read |-> read, createdAt |-> createdAt, currentStock |-> 0]

\* the clock value the process starts at; the seeds are dated before it
StartTime == 10

SeedNotifications ==
    << [Notification(1, "low_stock", FALSE, StartTime - 2) EXCEPT !.currentStock = 2],
       Notification(2, "new_sale", FALSE, StartTime - 1),
       Notification(3, "purchase_reminder", TRUE, StartTime - 3),
       Notification(4, "employee_activity", FALSE, StartTime - 4),
       Notification(5, "system", TRUE, StartTime - 5) >>

(***************************************************************************)
(* Requests.                                                               *)
(***************************************************************************)
IdleReq ==
    [op |-> "none", pc |-> "idle", user |-> 0, pid |-> 0, qty |-> 0, mtype |-> "",
     price |-> 0, path |-> "", nid |-> -1, status |-> "none", wrote |-> FALSE,
     delta |-> 0]

\* a request that has been answered: the response status and what it did
Answered(r, status) == [r EXCEPT !.pc = "done", !.status = status]

NewReq(op, user) == [IdleReq EXCEPT !.op = op, !.user = user, !.pc = "begin"]

InFlight(c) == req[c].pc \notin {"idle", "done"}

CanStart(c) == ~InFlight(c) /\ nreq < MaxRequests

(***************************************************************************)
(* Auth layer: requireAuth, requireAdmin, requirePermission,               *)
(* authenticateUser, registerUser.                                         *)
(***************************************************************************)
UserExists(id) == id \in 1..Len(users)

\* storage.getUserByUsername / getUserByEmail: the row's id, 0 when there is none
getUserByUsername(username) ==
    IF \E i \in 1..Len(users) : users[i].username = username
    THEN CHOOSE i \in 1..Len(users) : users[i].username = username
    ELSE 0

getUserByEmail(email) ==
    IF \E i \in 1..Len(users) : users[i].email = email
    THEN CHOOSE i \in 1..Len(users) : users[i].email = email
    ELSE 0

\* requireAuth: "next" with req.user set, or 401; a session whose user is gone
\* or inactive is destroyed
requireAuth(c) ==
    IF sessions[c] = 0 THEN [status |-> "401", user |-> 0, destroy |-> FALSE]
    ELSE IF ~UserExists(sessions[c]) \/ ~users[sessions[c]].isActive
         THEN [status |-> "401", user |-> 0, destroy |-> TRUE]
         ELSE [status |-> "next", user |-> sessions[c], destroy |-> FALSE]

\* requireAdmin testing only that req.user is set
requireAdminAnyRole(user) ==
    IF user = 0 THEN "403" ELSE "next"

\* requireAdmin on req.user (0 = undefined)
requireAdmin(user) ==
    IF user = 0 \/ users[user].role # "admin" THEN "403" ELSE "next"

\* requirePermission without the test of the permissions array
requirePermissionAnyUser(user, permission) ==
    IF user = 0 THEN "401" ELSE "next"

\* requirePermission(permission) on req.user (0 = undefined)
requirePermission(user, permission) ==
    IF user = 0 THEN "401"
    ELSE IF users[user].role = "admin" THEN "next"
    ELSE IF permission \notin users[user].permissions THEN "403"
    ELSE "next"

\* A route's middleware chain: requireAuth, then requireAdmin and/or
\* requirePermission(perm); perm = "" when the route has no permission gate.
Gate(auth, admin, perm) == [auth |-> auth, admin |-> admin, perm |-> perm]

\* the chain's verdict for client c: "next" or the status it answers with
RunGate(c, g) ==
    LET a == IF g.auth THEN requireAuth(c)
             ELSE [status |-> "next", user |-> 0, destroy |-> FALSE]
    IN  IF a.status # "next" THEN a.status
        ELSE IF g.admin /\ requireAdmin(a.user) # "next" THEN requireAdmin(a.user)
        ELSE IF g.perm # "" THEN requirePermission(a.user, g.perm)
        ELSE "next"

GateUser(c, g) == IF g.auth THEN requireAuth(c).user ELSE 0

SessionsAfterGate(c, g) ==
    IF g.auth /\ requireAuth(c).destroy THEN [sessions EXCEPT ![c] = 0] ELSE sessions

\* authenticateUser: the user's id, 0 for null
authenticateUser(username, password) ==
    LET id == getUserByUsername(username)
    IN  IF id = 0 \/ ~users[id].isActive THEN 0
        ELSE IF ~verifyPassword(password, users[id].passwordHash) THEN 0
        ELSE id

\* registerUser: does it create the row (TRUE) or return null (FALSE)
registerUserOk(data) ==
    /\ getUserByUsername(data.username) = 0
    /\ getUserByEmail(data.email) = 0

\* the row registerUser creates: the role asked for, no permissions, active
registerUserRow(data) ==
    UserRow(data.username, data.email, data.password, data.role, {}, TRUE)

RegisterInputs ==
    [username : {"emp", "eve"}, email : Emails, password : {"secret"}, role : Roles]

(***************************************************************************)
(* Auth routes.                                                            *)
(***************************************************************************)
\* POST /api/auth/login
PostLogin(c, username, password, wellFormed) ==
    /\ CanStart(c)
    /\ nreq' = nreq + 1
    /\ LET id == authenticateUser(username, password)
       IN  IF ~wellFormed
           THEN /\ req' = [req EXCEPT ![c] = Answered(NewReq("login", 0), "400")]
                /\ UNCHANGED sessions
           ELSE IF id = 0
           THEN /\ req' = [req EXCEPT ![c] = Answered(NewReq("login", 0), "401")]
                /\ UNCHANGED sessions
           ELSE /\ req' = [req EXCEPT ![c] = Answered(NewReq("login", id), "200")]
                /\ sessions' = [sessions EXCEPT ![c] = id]
    /\ UNCHANGED <<categories, users, catalog, rowLock, records, notifications, now>>

\* POST /api/auth/register
PostRegister(c, data, wellFormed) ==
    /\ CanStart(c)
    /\ nreq' = nreq + 1
    /\ IF ~wellFormed \/ ~registerUserOk(data)
       THEN /\ req' = [req EXCEPT ![c] = Answered(NewReq("register", 0), "400")]
            /\ UNCHANGED <<users, sessions>>
       ELSE /\ users' = Append(users, registerUserRow(data))
            /\ sessions' = [sessions EXCEPT ![c] = Len(users) + 1]
            /\ req' = [req EXCEPT ![c] =
                          Answered(NewReq("register", Len(users) + 1), "201")]
    /\ UNCHANGED <<categories, catalog, rowLock, records, notifications, now>>

\* POST /api/auth/logout
PostLogout(c) ==
    /\ CanStart(c)
    /\ nreq' = nreq + 1
    /\ sessions' = [sessions EXCEPT ![c] = 0]
    /\ req' = [req EXCEPT ![c] = Answered(NewReq("logout", 0), "200")]
    /\ UNCHANGED <<categories, users, catalog, rowLock, records, notifications, now>>

(***************************************************************************)
(* Employee routes.                                                        *)
(***************************************************************************)
EmployeesGate == Gate(TRUE, TRUE, "")

\* GET /api/employees
GetEmployees(c) ==
    /\ CanStart(c)
    /\ nreq' = nreq + 1
    /\ LET verdict == RunGate(c, EmployeesGate)
           r == NewReq("getEmployees", GateUser(c, EmployeesGate))
       IN  req' = [req EXCEPT ![c] =
                      Answered(r, IF verdict = "next" THEN "200" ELSE verdict)]
    /\ sessions' = SessionsAfterGate(c, EmployeesGate)
    /\ UNCHANGED <<categories, users, catalog, rowLock, records, notifications, now>>

\* POST /api/employees
PostEmployees(c, data, wellFormed) ==
    /\ CanStart(c)
    /\ nreq' = nreq + 1
    /\ sessions' = SessionsAfterGate(c, EmployeesGate)
    /\ LET verdict == RunGate(c, EmployeesGate)
           r == NewReq("postEmployees", GateUser(c, EmployeesGate))
       IN  IF verdict # "next"
           THEN /\ req' = [req EXCEPT ![c] = Answered(r, verdict)]
                /\ UNCHANGED users
           ELSE IF ~wellFormed \/ ~registerUserOk(data)
           THEN /\ req' = [req EXCEPT ![c] = Answered(r, "400")]
                /\ UNCHANGED users
           ELSE /\ users' = Append(users, registerUserRow(data))
                /\ req' = [req EXCEPT ![c] = Answered(r, "201")]
    /\ UNCHANGED <<categories, catalog, rowLock, records, notifications, now>>

(***************************************************************************)
(* Read-only data routes.  The report routes call storage methods that     *)
(* DatabaseStorage does not define, so past their gate they answer 500.    *)
(***************************************************************************)
ReadRoutes ==
    {"auth/user", "dashboard/stats", "categories/main", "categories/sub", "products",
     "products/low-stock", "purchases", "stock-movements", "sales", "sales/recent",
     "reports/sales", "reports/inventory", "reports/low-stock"}

ReportRoutes == {"reports/sales", "reports/inventory", "reports/low-stock"}

ReadGate(route) ==
    IF route = "stock-movements" THEN Gate(TRUE, FALSE, "stock_in")
    ELSE IF route = "sales" THEN Gate(TRUE, FALSE, "sales")
    ELSE IF route \in ReportRoutes THEN Gate(TRUE, FALSE, "view_reports")
    ELSE Gate(TRUE, FALSE, "")

\* GET /api/<route>
GetData(c, route) ==
    /\ CanStart(c)
    /\ nreq' = nreq + 1
    /\ LET verdict == RunGate(c, ReadGate(route))
           r == NewReq("get", GateUser(c, ReadGate(route)))
       IN  req' = [req EXCEPT ![c] =
                      Answered(r, IF verdict # "next" THEN verdict
                                  ELSE IF route \in ReportRoutes THEN "500"
                                  ELSE "200")]
    /\ sessions' = SessionsAfterGate(c, ReadGate(route))
    /\ UNCHANGED <<categories, users, catalog, rowLock, records, notifications, now>>

(***************************************************************************)
(* Notification feed (in-memory array).                                    *)
(***************************************************************************)
\* addNotification: id = Date.now().toString(), unread, unshifted to the front
addNotification(feed, type) == <<Notification(now, type, FALSE, now)>> \o feed

\* addNotification('low_stock', ..., {currentStock, minStock: 5})
addLowStock(feed, currentStock) ==
    <<[Notification(now, "low_stock", FALSE, now) EXCEPT !.currentStock = currentStock]>>
        \o feed

RECURSIVE InsertByDate(_, _)
InsertByDate(n, s) ==
    IF s = <<>> THEN <<n>>
    ELSE IF Head(s).createdAt >= n.createdAt THEN <<Head(s)>> \o InsertByDate(n, Tail(s))
    ELSE <<n>> \o s

\* the array as stored, without sorting
AsStored(s) == s

\* notifications.sort((a, b) => b.createdAt - a.createdAt): stable, newest first
RECURSIVE SortNewestFirst(_)
SortNewestFirst(s) ==
    IF s = <<>> THEN <<>>
    ELSE InsertByDate(s[Len(s)], SortNewestFirst(SubSeq(s, 1, Len(s) - 1)))

\* notifications.findIndex(n => n.id === id): 0 when there is none
findIndex(feed, id) ==
    IF \E i \in 1..Len(feed) : feed[i].id = id
    THEN CHOOSE i \in 1..Len(feed) :
             feed[i].id = id /\ \A j \in 1..(i - 1) : feed[j].id # id
    ELSE 0

\* notifications.splice(index, 1)
splice(feed, index) == SubSeq(feed, 1, index - 1) \o SubSeq(feed, index + 1, Len(feed))

FeedIds == {notifications[i].id : i \in 1..Len(notifications)}

NotificationIdInputs == FeedIds \cup {0}

ActionTypes == {"restock", "view_details", "approve", "other"}

\* The notification routes are registered without any middleware.
NotificationsGate == Gate(FALSE, FALSE, "")

\* GET /api/notifications: sorts the feed array in place
GetNotifications(c) ==
    /\ CanStart(c)
    /\ nreq' = nreq + 1
    /\ sessions' = SessionsAfterGate(c, NotificationsGate)
    /\ LET verdict == RunGate(c, NotificationsGate)
           r == NewReq("getNotifications", GateUser(c, NotificationsGate))
       IN  IF verdict # "next"
           THEN /\ req' = [req EXCEPT ![c] = Answered(r, verdict)]
                /\ UNCHANGED notifications
           ELSE /\ notifications' = SortNewestFirst(notifications)
                /\ req' = [req EXCEPT ![c] = Answered(r, "200")]
    /\ UNCHANGED <<categories, users, catalog, rowLock, records, now>>

\* flipping the flag instead of setting it
MarkNotificationAsReadToggle(c, id) ==
    /\ CanStart(c)
    /\ nreq' = nreq + 1
    /\ sessions' = SessionsAfterGate(c, NotificationsGate)
    /\ LET verdict == RunGate(c, NotificationsGate)
           r == [NewReq("markNotificationAsRead", GateUser(c, NotificationsGate))
                    EXCEPT !.nid = id]
           i == findIndex(notifications, id)
       IN  IF verdict # "next"
           THEN /\ req' = [req EXCEPT ![c] = Answered(r, verdict)]
                /\ UNCHANGED notifications
           ELSE IF i = 0
           THEN /\ req' = [req EXCEPT ![c] = Answered(r, "404")]
                /\ UNCHANGED notifications
           ELSE /\ notifications' = [notifications EXCEPT ![i].read = ~@]
                /\ req' = [req EXCEPT ![c] = Answered(r, "200")]
    /\ UNCHANGED <<categories, users, catalog, rowLock, records, now>>

\* PATCH /api/notifications/:id/read
MarkNotificationAsRead(c, id) ==
    /\ CanStart(c)
    /\ nreq' = nreq + 1
    /\ sessions' = SessionsAfterGate(c, NotificationsGate)
    /\ LET verdict == RunGate(c, NotificationsGate)
           r == [NewReq("markNotificationAsRead", GateUser(c, NotificationsGate))
                    EXCEPT !.nid = id]
           i == findIndex(notifications, id)
       IN  IF verdict # "next"
           THEN /\ req' = [req EXCEPT ![c] = Answered(r, verdict)]
                /\ UNCHANGED notifications
           ELSE IF i = 0
           THEN /\ req' = [req EXCEPT ![c] = Answered(r, "404")]
                /\ UNCHANGED notifications
           ELSE /\ notifications' = [notifications EXCEPT ![i].read = TRUE]
                /\ req' = [req EXCEPT ![c] = Answered(r, "200")]
    /\ UNCHANGED <<categories, users, catalog, rowLock, records, now>>

\* DELETE /api/notifications/:id
DismissNotification(c, id) ==
    /\ CanStart(c)
    /\ nreq' = nreq + 1
    /\ sessions' = SessionsAfterGate(c, NotificationsGate)
    /\ LET verdict == RunGate(c, NotificationsGate)
           r == [NewReq("dismissNotification", GateUser(c, NotificationsGate))
                    EXCEPT !.nid = id]
           i == findIndex(notifications, id)
       IN  IF verdict # "next"
           THEN /\ req' = [req EXCEPT ![c] = Answered(r, verdict)]
                /\ UNCHANGED notifications
           ELSE IF i = 0
           THEN /\ req' = [req EXCEPT ![c] = Answered(r, "404")]
                /\ UNCHANGED notifications
           ELSE /\ notifications' = splice(notifications, i)
                /\ req' = [req EXCEPT ![c] = Answered(r, "200")]
    /\ UNCHANGED <<categories, users, catalog, rowLock, records, now>>

\* PATCH /api/notifications/mark-all-read
MarkAllAsRead(c) ==
    /\ CanStart(c)
    /\ nreq' = nreq + 1
    /\ sessions' = SessionsAfterGate(c, NotificationsGate)
    /\ LET verdict == RunGate(c, NotificationsGate)
           r == NewReq("markAllAsRead", GateUser(c, NotificationsGate))
       IN  IF verdict # "next"
           THEN /\ req' = [req EXCEPT ![c] = Answered(r, verdict)]
                /\ UNCHANGED notifications
           ELSE /\ notifications' =
                       [i \in 1..Len(notifications) |->
                            [notifications[i] EXCEPT !.read = TRUE]]
                /\ req' = [req EXCEPT ![c] = Answered(r, "200")]
    /\ UNCHANGED <<categories, users, catalog, rowLock, records, now>>

\* POST /api/notifications/:id/action.  The 'restock' branch reads
\* data.productName: without a data object in the body it throws after the
\* notification was marked read, and the request ends 500.
ExecuteNotificationAction(c, id, actionType, hasData) ==
    /\ CanStart(c)
    /\ nreq' = nreq + 1
    /\ sessions' = SessionsAfterGate(c, NotificationsGate)
    /\ LET verdict == RunGate(c, NotificationsGate)
           r == [NewReq("executeNotificationAction", GateUser(c, NotificationsGate))
                    EXCEPT !.nid = id]
           i == findIndex(notifications, id)
       IN  IF verdict # "next"
           THEN /\ req' = [req EXCEPT ![c] = Answered(r, verdict)]
                /\ UNCHANGED notifications
           ELSE IF i = 0
           THEN /\ req' = [req EXCEPT ![c] = Answered(r, "404")]
                /\ UNCHANGED notifications
           ELSE /\ notifications' = [notifications EXCEPT ![i].read = TRUE]
                /\ req' = [req EXCEPT ![c] =
                              Answered(r, IF actionType = "restock" /\ ~hasData
                                          THEN "500" ELSE "200")]
    /\ UNCHANGED <<categories, users, catalog, rowLock, records, now>>

\* time passes between two reads of Date.now()
Tick ==
    /\ now < StartTime + MaxTicks
    /\ now' = now + 1
    /\ UNCHANGED <<categories, users, sessions, catalog, rowLock, records, notifications, req, nreq>>

(***************************************************************************)
(* Product routes and storage operations.                                  *)
(***************************************************************************)
ProductsGate == Gate(TRUE, FALSE, "")

ProductFields == {"stockQuantity", "lowStockThreshold"}

\* the bodies insertProductSchema.partial() lets through to .set(...)
PatchInputs ==
    [fields : (SUBSET ProductFields) \ {{}},
     stockQuantity : StockInputs, lowStockThreshold : ThresholdInputs]

\* storage.updateProduct: .set(product).where(id): every field of the body is written
updateProduct(row, patch) ==
    [row EXCEPT
        !.stockQuantity =
            IF "stockQuantity" \in patch.fields THEN patch.stockQuantity ELSE @,
        !.lowStockThreshold =
            IF "lowStockThreshold" \in patch.fields THEN patch.lowStockThreshold ELSE @]

\* POST /api/products -> storage.createProduct
PostProducts(c, stock, threshold, subCategoryId, wellFormed) ==
    /\ CanStart(c)
    /\ productSeq < MaxProducts
    /\ nreq' = nreq + 1
    /\ sessions' = SessionsAfterGate(c, ProductsGate)
    /\ LET verdict == RunGate(c, ProductsGate)
           r == NewReq("postProducts", GateUser(c, ProductsGate))
       IN  IF verdict # "next"
           THEN /\ req' = [req EXCEPT ![c] = Answered(r, verdict)]
                /\ UNCHANGED catalog
           ELSE IF ~wellFormed
           THEN /\ req' = [req EXCEPT ![c] = Answered(r, "500")]
                /\ UNCHANGED catalog
           ELSE /\ productSeq' = productSeq + 1
                /\ products' = [products EXCEPT
                                   ![productSeq + 1] =
                                       ProductRow(stock, threshold, subCategoryId)]
                /\ req' = [req EXCEPT ![c] =
                              Answered([r EXCEPT !.pid = productSeq + 1], "200")]
    /\ UNCHANGED <<categories, users, rowLock, records, notifications, now>>

\* PUT /api/products/:id -> storage.updateProduct
PutProduct(c, id, patch, wellFormed) ==
    /\ CanStart(c)
    /\ rowLock[id] = 0
    /\ nreq' = nreq + 1
    /\ sessions' = SessionsAfterGate(c, ProductsGate)
    /\ LET verdict == RunGate(c, ProductsGate)
           r == [NewReq("putProduct", GateUser(c, ProductsGate)) EXCEPT !.pid = id]
       IN  IF verdict # "next"
           THEN /\ req' = [req EXCEPT ![c] = Answered(r, verdict)]
                /\ UNCHANGED products
           ELSE IF ~wellFormed
           THEN /\ req' = [req EXCEPT ![c] = Answered(r, "500")]
                /\ UNCHANGED products
           ELSE /\ products' = [products EXCEPT
                                   ![id] = IF @.exists THEN updateProduct(@, patch) ELSE @]
                /\ req' = [req EXCEPT ![c] = Answered(r, "200")]
    /\ UNCHANGED <<categories, users, productSeq, rowLock, records, notifications, now>>

\* DELETE /api/products/:id -> storage.deleteProduct
\* deleting the product together with the records that name it
DeleteProductCascade(c, id) ==
    /\ CanStart(c)
    /\ rowLock[id] = 0
    /\ nreq' = nreq + 1
    /\ sessions' = SessionsAfterGate(c, ProductsGate)
    /\ LET verdict == RunGate(c, ProductsGate)
           r == [NewReq("deleteProduct", GateUser(c, ProductsGate)) EXCEPT !.pid = id]
           Others(row) == row.productId # id
       IN  IF verdict # "next"
           THEN /\ req' = [req EXCEPT ![c] = Answered(r, verdict)]
                /\ UNCHANGED <<products, records>>
           ELSE /\ products' = [products EXCEPT ![id] = NoProduct]
                /\ purchases' = SelectSeq(purchases, Others)
                /\ sales' = SelectSeq(sales, Others)
                /\ stockMovements' = SelectSeq(stockMovements, Others)
                /\ req' = [req EXCEPT ![c] = Answered(r, "200")]
    /\ UNCHANGED <<categories, users, productSeq, rowLock, notifications, now>>

\* deleting the product together with the sub-category it is filed under
DeleteProductAndSubCategory(c, id) ==
    /\ CanStart(c)
    /\ rowLock[id] = 0
    /\ nreq' = nreq + 1
    /\ sessions' = SessionsAfterGate(c, ProductsGate)
    /\ LET verdict == RunGate(c, ProductsGate)
           r == [NewReq("deleteProduct", GateUser(c, ProductsGate)) EXCEPT !.pid = id]
           sub == products[id].subCategoryId
       IN  IF verdict # "next"
           THEN /\ req' = [req EXCEPT ![c] = Answered(r, verdict)]
                /\ UNCHANGED <<products, subCategories>>
           ELSE /\ products' = [products EXCEPT ![id] = NoProduct]
                /\ subCategories' =
                       IF sub \in 1..Len(subCategories)
                       THEN SubSeq(subCategories, 1, sub - 1)
                                \o SubSeq(subCategories, sub + 1, Len(subCategories))
                       ELSE subCategories
                /\ req' = [req EXCEPT ![c] = Answered(r, "200")]
    /\ UNCHANGED <<mainCategories, users, productSeq, rowLock, records, notifications, now>>

DeleteProduct(c, id) ==
    /\ CanStart(c)
    /\ rowLock[id] = 0
    /\ nreq' = nreq + 1
    /\ sessions' = SessionsAfterGate(c, ProductsGate)
    /\ LET verdict == RunGate(c, ProductsGate)
           r == [NewReq("deleteProduct", GateUser(c, ProductsGate)) EXCEPT !.pid = id]
       IN  IF verdict # "next"
           THEN /\ req' = [req EXCEPT ![c] = Answered(r, verdict)]
                /\ UNCHANGED products
           ELSE /\ products' = [products EXCEPT ![id] = NoProduct]
                /\ req' = [req EXCEPT ![c] = Answered(r, "200")]
    /\ UNCHANGED <<categories, users, productSeq, rowLock, records, notifications, now>>

\* storage.updateProductStock(productId, newQuantity): no route calls it
updateProductStock(c, productId, newQuantity) ==
    /\ CanStart(c)
    /\ rowLock[productId] = 0
    /\ nreq' = nreq + 1
    /\ products' = [products EXCEPT
                       ![productId] = IF @.exists
                                      THEN [@ EXCEPT !.stockQuantity = newQuantity]
                                      ELSE @]
    /\ req' = [req EXCEPT ![c] =
                  Answered([NewReq("updateProductStock", 0) EXCEPT !.pid = productId],
                           "resolved")]
    /\ UNCHANGED <<categories, users, sessions, productSeq, rowLock, records, notifications, now>>

(***************************************************************************)
(* Stock rows and the pure parts of the stock operations.                  *)
(***************************************************************************)
\* the total taken to be the unit price
TotalUnitPrice(quantity, price) == price

\* (Number(quantity) * Number(price)).toString(), stored in a decimal(10, 2)
\* column; prices are amounts in cents
Total(quantity, price) == quantity * price

\* soldBy / purchasedBy / performedBy: the acting user, 0 for a direct storage call
SaleRow(r) ==
    [productId |-> r.pid, quantitySold |-> r.qty, salePrice |-> r.price,
     totalAmount |-> Total(r.qty, r.price), soldBy |-> r.user]

PurchaseRow(r) ==
    [productId |-> r.pid, quantityReceived |-> r.qty, costPerUnit |-> r.price,
     totalCost |-> Total(r.qty, r.price), purchasedBy |-> r.user]

MovementRow(r) ==
    [productId |-> r.pid, movementType |-> r.mtype, quantity |-> r.qty,
     performedBy |-> r.user]

\* !product || product.stockQuantity < quantity
InsufficientStock(product, quantity) ==
    ~product.exists \/ product.stockQuantity < quantity

\* createStockMovement: movementType === 'in' ? quantity : -quantity
stockChange(movementType, quantity) ==
    IF movementType = "in" THEN quantity ELSE 0 - quantity

\* the UPDATE storing the change itself instead of adding it
AdjustStockSet(pid, change) ==
    [products EXCEPT ![pid] =
        IF @.exists THEN [@ EXCEPT !.stockQuantity = change] ELSE @]

\* the UPDATE applying the change twice
AdjustStockTwice(pid, change) ==
    [products EXCEPT ![pid] =
        IF @.exists THEN [@ EXCEPT !.stockQuantity = @ + change + change] ELSE @]

\* UPDATE products SET stock_quantity = stock_quantity + change WHERE id = pid
AdjustStock(pid, change) ==
    [products EXCEPT ![pid] =
        IF @.exists THEN [@ EXCEPT !.stockQuantity = @ + change] ELSE @]

\* the change the UPDATE above makes to the stored stock (0: no row matched)
Applied(pid, change) == IF products[pid].exists THEN change ELSE 0

At(c, op, pc) == req[c].op = op /\ req[c].pc = pc

(***************************************************************************)
(* POST /api/sales: requireAuth, requirePermission("sales"), then an       *)
(* INSERT, an UPDATE and a SELECT issued one after the other on db.        *)
(***************************************************************************)
SalesGate == Gate(TRUE, FALSE, "sales")

PostSales(c, pid, qty, price, wellFormed) ==
    /\ CanStart(c)
    /\ nreq' = nreq + 1
    /\ sessions' = SessionsAfterGate(c, SalesGate)
    /\ LET verdict == RunGate(c, SalesGate)
           r == [NewReq("postSales", GateUser(c, SalesGate)) EXCEPT
                    !.pid = pid, !.qty = qty, !.price = price]
       IN  req' = [req EXCEPT ![c] =
                      IF verdict # "next" THEN Answered(r, verdict)
                      ELSE IF ~wellFormed THEN Answered(r, "500")
                      ELSE [r EXCEPT !.pc = "insert"]]
    /\ UNCHANGED <<categories, users, catalog, rowLock, records, notifications, now>>

PostSalesInsert(c) ==
    /\ At(c, "postSales", "insert")
    /\ sales' = Append(sales, SaleRow(req[c]))
    /\ req' = [req EXCEPT ![c].pc = "update", ![c].wrote = TRUE]
    /\ UNCHANGED <<categories, users, sessions, catalog, rowLock, purchases, stockMovements,
                   notifications, now, nreq>>

PostSalesUpdate(c) ==
    /\ At(c, "postSales", "update")
    /\ rowLock[req[c].pid] = 0
    /\ products' = AdjustStock(req[c].pid, 0 - req[c].qty)
    /\ req' = [req EXCEPT ![c].pc = "respond",
                          ![c].delta = Applied(req[c].pid, 0 - req[c].qty)]
    /\ UNCHANGED <<categories, users, sessions, productSeq, rowLock, records, notifications, now, nreq>>

\* The product is read back after the UPDATE; product.name on a missing row
\* throws and the request ends 500.
PostSalesRespond(c) ==
    /\ At(c, "postSales", "respond")
    /\ LET product == products[req[c].pid]
           feed == addNotification(notifications, "new_sale")
       IN  IF ~product.exists
           THEN /\ req' = [req EXCEPT ![c] = Answered(@, "500")]
                /\ UNCHANGED notifications
           ELSE /\ notifications' =
                       IF product.stockQuantity - req[c].qty <= LowStockLiteral
                       THEN addLowStock(feed, product.stockQuantity - req[c].qty)
                       ELSE feed
                /\ req' = [req EXCEPT ![c] = Answered(@, "200")]
    /\ UNCHANGED <<categories, users, sessions, catalog, rowLock, records, now, nreq>>

(***************************************************************************)
(* POST /api/purchases: requireAuth only.                                  *)
(***************************************************************************)
PurchasesGate == Gate(TRUE, FALSE, "")

PostPurchases(c, pid, qty, price, wellFormed) ==
    /\ CanStart(c)
    /\ nreq' = nreq + 1
    /\ sessions' = SessionsAfterGate(c, PurchasesGate)
    /\ LET verdict == RunGate(c, PurchasesGate)
           r == [NewReq("postPurchases", GateUser(c, PurchasesGate)) EXCEPT
                    !.pid = pid, !.qty = qty, !.price = price]
       IN  req' = [req EXCEPT ![c] =
                      IF verdict # "next" THEN Answered(r, verdict)
                      ELSE IF ~wellFormed THEN Answered(r, "500")
                      ELSE [r EXCEPT !.pc = "insert"]]
    /\ UNCHANGED <<categories, users, catalog, rowLock, records, notifications, now>>

PostPurchasesInsert(c) ==
    /\ At(c, "postPurchases", "insert")
    /\ purchases' = Append(purchases, PurchaseRow(req[c]))
    /\ req' = [req EXCEPT ![c].pc = "update", ![c].wrote = TRUE]
    /\ UNCHANGED <<categories, users, sessions, catalog, rowLock, sales, stockMovements,
                   notifications, now, nreq>>

PostPurchasesUpdate(c) ==
    /\ At(c, "postPurchases", "update")
    /\ rowLock[req[c].pid] = 0
    /\ products' = AdjustStock(req[c].pid, req[c].qty)
    /\ req' = [req EXCEPT ![c].pc = "respond",
                          ![c].delta = Applied(req[c].pid, req[c].qty)]
    /\ UNCHANGED <<categories, users, sessions, productSeq, rowLock, records, notifications, now, nreq>>

PostPurchasesRespond(c) ==
    /\ At(c, "postPurchases", "respond")
    /\ IF ~products[req[c].pid].exists
       THEN /\ req' = [req EXCEPT ![c] = Answered(@, "500")]
            /\ UNCHANGED notifications
       ELSE /\ notifications' = addNotification(notifications, "new_purchase")
            /\ req' = [req EXCEPT ![c] = Answered(@, "200")]
    /\ UNCHANGED <<categories, users, sessions, catalog, rowLock, records, now, nreq>>

(***************************************************************************)
(* POST /api/stock-movements: requireAuth, requirePermission("stock_in");  *)
(* an 'out' movement first reads the product and compares the stock.       *)
(***************************************************************************)
StockMovementsGate == Gate(TRUE, FALSE, "stock_in")

PostStockMovements(c, pid, mtype, qty, wellFormed) ==
    /\ CanStart(c)
    /\ nreq' = nreq + 1
    /\ sessions' = SessionsAfterGate(c, StockMovementsGate)
    /\ LET verdict == RunGate(c, StockMovementsGate)
           r == [NewReq("postStockMovements", GateUser(c, StockMovementsGate)) EXCEPT
                    !.pid = pid, !.qty = qty, !.mtype = mtype]
       IN  req' = [req EXCEPT ![c] =
                      IF verdict # "next" THEN Answered(r, verdict)
                      ELSE IF ~wellFormed THEN Answered(r, "500")
                      ELSE IF mtype = "out" THEN [r EXCEPT !.pc = "check"]
                      ELSE [r EXCEPT !.pc = "insert"]]
    /\ UNCHANGED <<categories, users, catalog, rowLock, records, notifications, now>>

\* the stock check answering through the catch block, like every other failure
PostStockMovementsCheckGeneric(c) ==
    /\ At(c, "postStockMovements", "check")
    /\ req' = [req EXCEPT ![c] =
                  IF InsufficientStock(products[req[c].pid], req[c].qty)
                  THEN Answered(@, "500")
                  ELSE [@ EXCEPT !.pc = "insert"]]
    /\ UNCHANGED <<categories, users, sessions, catalog, rowLock, records, notifications, now, nreq>>

PostStockMovementsCheck(c) ==
    /\ At(c, "postStockMovements", "check")
    /\ req' = [req EXCEPT ![c] =
                  IF InsufficientStock(products[req[c].pid], req[c].qty)
                  THEN Answered(@, "400")
                  ELSE [@ EXCEPT !.pc = "insert"]]
    /\ UNCHANGED <<categories, users, sessions, catalog, rowLock, records, notifications, now, nreq>>

PostStockMovementsInsert(c) ==
    /\ At(c, "postStockMovements", "insert")
    /\ stockMovements' = Append(stockMovements, MovementRow(req[c]))
    /\ req' = [req EXCEPT ![c].pc = "update", ![c].wrote = TRUE]
    /\ UNCHANGED <<categories, users, sessions, catalog, rowLock, purchases, sales,
                   notifications, now, nreq>>

PostStockMovementsUpdate(c) ==
    /\ At(c, "postStockMovements", "update")
    /\ rowLock[req[c].pid] = 0
    /\ products' = AdjustStock(req[c].pid, stockChange(req[c].mtype, req[c].qty))
    /\ req' = [req EXCEPT ![c].pc = "respond",
                          ![c].delta = Applied(req[c].pid,
                                               stockChange(req[c].mtype, req[c].qty))]
    /\ UNCHANGED <<categories, users, sessions, productSeq, rowLock, records, notifications, now, nreq>>

PostStockMovementsRespond(c) ==
    /\ At(c, "postStockMovements", "respond")
    /\ LET product == products[req[c].pid]
           feed == addNotification(notifications, "stock_movement")
       IN  IF ~product.exists
           THEN /\ req' = [req EXCEPT ![c] = Answered(@, "500")]
                /\ UNCHANGED notifications
           ELSE /\ notifications' =
                       IF product.stockQuantity + stockChange(req[c].mtype, req[c].qty)
                              <= LowStockLiteral
                       THEN addLowStock(feed, product.stockQuantity
                                                  + stockChange(req[c].mtype, req[c].qty))
                       ELSE feed
                /\ req' = [req EXCEPT ![c] = Answered(@, "200")]
    /\ UNCHANGED <<categories, users, sessions, catalog, rowLock, records, now, nreq>>

(***************************************************************************)
(* DatabaseStorage.createSale / createPurchase / createStockMovement: each *)
(* runs its statements inside db.transaction.  The INSERT stays invisible  *)
(* until COMMIT; the UPDATE takes the product's row lock (it waits while   *)
(* another transaction holds it) and computes from the committed value.    *)
(***************************************************************************)
Lock(c, pid) == IF products[pid].exists THEN [rowLock EXCEPT ![pid] = c] ELSE rowLock

Unlock(c) == [p \in ProductIds |-> IF rowLock[p] = c THEN 0 ELSE rowLock[p]]

\* the stock change a committing transaction makes: only a row it locked matched
Committed(c, change) == IF rowLock[req[c].pid] = c THEN change ELSE 0

\* createSale: BEGIN, SELECT the product, throw "Insufficient stock" (ROLLBACK)
createSale(c, pid, qty, price) ==
    /\ CanStart(c)
    /\ nreq' = nreq + 1
    /\ LET r == [NewReq("createSale", 0) EXCEPT !.pid = pid, !.qty = qty, !.price = price]
       IN  req' = [req EXCEPT ![c] =
                      IF InsufficientStock(products[pid], qty)
                      THEN Answered(r, "rejected")
                      ELSE [r EXCEPT !.pc = "txInsert"]]
    /\ UNCHANGED <<categories, users, sessions, catalog, rowLock, records, notifications, now>>

createSaleInsert(c) ==
    /\ At(c, "createSale", "txInsert")
    /\ req' = [req EXCEPT ![c].pc = "txUpdate"]
    /\ UNCHANGED <<categories, users, sessions, catalog, rowLock, records, notifications, now, nreq>>

createSaleUpdate(c) ==
    /\ At(c, "createSale", "txUpdate")
    /\ rowLock[req[c].pid] = 0
    /\ rowLock' = Lock(c, req[c].pid)
    /\ req' = [req EXCEPT ![c].pc = "txCommit"]
    /\ UNCHANGED <<categories, users, sessions, catalog, records, notifications, now, nreq>>

createSaleCommit(c) ==
    /\ At(c, "createSale", "txCommit")
    /\ sales' = Append(sales, SaleRow(req[c]))
    /\ products' = AdjustStock(req[c].pid, Committed(c, 0 - req[c].qty))
    /\ rowLock' = Unlock(c)
    /\ req' = [req EXCEPT ![c] =
                  Answered([@ EXCEPT !.wrote = TRUE,
                                     !.delta = Committed(c, 0 - req[c].qty)],
                           "resolved")]
    /\ UNCHANGED <<categories, users, sessions, productSeq, purchases, stockMovements,
                   notifications, now, nreq>>

\* createPurchase: BEGIN, INSERT
createPurchase(c, pid, qty, price) ==
    /\ CanStart(c)
    /\ nreq' = nreq + 1
    /\ req' = [req EXCEPT ![c] =
                  [NewReq("createPurchase", 0) EXCEPT
                      !.pid = pid, !.qty = qty, !.price = price, !.pc = "txUpdate"]]
    /\ UNCHANGED <<categories, users, sessions, catalog, rowLock, records, notifications, now>>

createPurchaseUpdate(c) ==
    /\ At(c, "createPurchase", "txUpdate")
    /\ rowLock[req[c].pid] = 0
    /\ rowLock' = Lock(c, req[c].pid)
    /\ req' = [req EXCEPT ![c].pc = "txCommit"]
    /\ UNCHANGED <<categories, users, sessions, catalog, records, notifications, now, nreq>>

createPurchaseCommit(c) ==
    /\ At(c, "createPurchase", "txCommit")
    /\ purchases' = Append(purchases, PurchaseRow(req[c]))
    /\ products' = AdjustStock(req[c].pid, Committed(c, req[c].qty))
    /\ rowLock' = Unlock(c)
    /\ req' = [req EXCEPT ![c] =
                  Answered([@ EXCEPT !.wrote = TRUE, !.delta = Committed(c, req[c].qty)],
                           "resolved")]
    /\ UNCHANGED <<categories, users, sessions, productSeq, sales, stockMovements,
                   notifications, now, nreq>>

\* createStockMovement: BEGIN, INSERT; the stock is not read
createStockMovement(c, pid, mtype, qty) ==
    /\ CanStart(c)
    /\ nreq' = nreq + 1
    /\ req' = [req EXCEPT ![c] =
                  [NewReq("createStockMovement", 0) EXCEPT
                      !.pid = pid, !.qty = qty, !.mtype = mtype, !.pc = "txUpdate"]]
    /\ UNCHANGED <<categories, users, sessions, catalog, rowLock, records, notifications, now>>

createStockMovementUpdate(c) ==
    /\ At(c, "createStockMovement", "txUpdate")
    /\ rowLock[req[c].pid] = 0
    /\ rowLock' = Lock(c, req[c].pid)
    /\ req' = [req EXCEPT ![c].pc = "txCommit"]
    /\ UNCHANGED <<categories, users, sessions, catalog, records, notifications, now, nreq>>

createStockMovementCommit(c) ==
    /\ At(c, "createStockMovement", "txCommit")
    /\ stockMovements' = Append(stockMovements, MovementRow(req[c]))
    /\ products' = AdjustStock(req[c].pid,
                               Committed(c, stockChange(req[c].mtype, req[c].qty)))
    /\ rowLock' = Unlock(c)
    /\ req' = [req EXCEPT ![c] =
                  Answered([@ EXCEPT !.wrote = TRUE,
                                     !.delta = Committed(c, stockChange(req[c].mtype,
                                                                        req[c].qty))],
                           "resolved")]
    /\ UNCHANGED <<categories, users, sessions, productSeq, purchases, sales,
                   notifications, now, nreq>>

(***************************************************************************)
(* Initial states.  The users, sessions and products tables are persisted  *)
(* rows: a run starts from rows earlier requests left behind.  No route    *)
(* writes users.permissions or users.isActive (registerUser stores [] and  *)
(* true), so rows that differ there come from the store itself.            *)
(***************************************************************************)
AdminSeed(permissions) ==
    UserRow("admin", "admin@x", "secret", "admin", permissions, TRUE)

EmployeeSeed(permissions, isActive) ==
    UserRow("emp", "emp@x", "secret", "employee", permissions, isActive)

InitCommon ==
    /\ rowLock = [p \in ProductIds |-> 0]
    /\ purchases = <<>>
    /\ sales = <<>>
    /\ stockMovements = <<>>
    /\ notifications = SeedNotifications
    /\ now = StartTime
    /\ req = [c \in Clients |-> IdleReq]
    /\ nreq = 0
    /\ mainCategories = <<MainCategoryRow("a")>>
    /\ subCategories = <<SubCategoryRow(1)>>

\* an admin is signed in on every client; the catalogue is empty
InitStock ==
    /\ InitCommon
    /\ users = <<AdminSeed({})>>
    /\ sessions = [c \in Clients |-> 1]
    /\ products = [p \in ProductIds |-> NoProduct]
    /\ productSeq = 0

\* product 1 was created with two units in stock; nothing was recorded for it yet
StockedCatalog == [p \in ProductIds |-> IF p = 1 THEN ProductRow(2, DefaultLowStockThreshold, 1)
                                        ELSE NoProduct]

InitConcurrentSales ==
    /\ InitCommon
    /\ users = <<AdminSeed({})>>
    /\ sessions = [c \in Clients |-> 1]
    /\ products = StockedCatalog
    /\ productSeq = 1

\* nobody is signed in; an admin and an employee exist
InitAuth ==
    /\ InitCommon
    /\ \E pa \in PermissionChoices, pe \in PermissionChoices :
           users = <<AdminSeed(pa), EmployeeSeed(pe, TRUE)>>
    /\ sessions = [c \in Clients |-> 0]
    /\ products = StockedCatalog
    /\ productSeq = 1

(***************************************************************************)
(* Next-state relations.                                                   *)
(***************************************************************************)
ProductOps(c) ==
    \/ \E stock \in StockInputs, threshold \in ThresholdInputs, wf \in BOOLEAN :
           PostProducts(c, stock, threshold, 1, wf)
    \/ \E id \in ProductIds, patch \in PatchInputs, wf \in BOOLEAN :
           PutProduct(c, id, patch, wf)
    \/ \E id \in ProductIds : DeleteProduct(c, id)
    \/ \E id \in ProductIds, n \in StockInputs : updateProductStock(c, id, n)

SaleRoute(c) ==
    \/ \E pid \in ProductIds, qty \in QtyInputs, price \in PriceInputs, wf \in BOOLEAN :
           PostSales(c, pid, qty, price, wf)
    \/ PostSalesInsert(c)
    \/ PostSalesUpdate(c)
    \/ PostSalesRespond(c)

PurchaseRoute(c) ==
    \/ \E pid \in ProductIds, qty \in QtyInputs, price \in PriceInputs, wf \in BOOLEAN :
           PostPurchases(c, pid, qty, price, wf)
    \/ PostPurchasesInsert(c)
    \/ PostPurchasesUpdate(c)
    \/ PostPurchasesRespond(c)

StockMovementRoute(c) ==
    \/ \E pid \in ProductIds, mtype \in MovementTypes, qty \in QtyInputs, wf \in BOOLEAN :
           PostStockMovements(c, pid, mtype, qty, wf)
    \/ PostStockMovementsCheck(c)
    \/ PostStockMovementsInsert(c)
    \/ PostStockMovementsUpdate(c)
    \/ PostStockMovementsRespond(c)

SaleTx(c) ==
    \/ \E pid \in ProductIds, qty \in QtyInputs, price \in PriceInputs :
           createSale(c, pid, qty, price)
    \/ createSaleInsert(c)
    \/ createSaleUpdate(c)
    \/ createSaleCommit(c)

PurchaseTx(c) ==
    \/ \E pid \in ProductIds, qty \in QtyInputs, price \in PriceInputs :
           createPurchase(c, pid, qty, price)
    \/ createPurchaseUpdate(c)
    \/ createPurchaseCommit(c)

StockMovementTx(c) ==
    \/ \E pid \in ProductIds, mtype \in MovementTypes, qty \in QtyInputs :
           createStockMovement(c, pid, mtype, qty)
    \/ createStockMovementUpdate(c)
    \/ createStockMovementCommit(c)

AuthOps(c) ==
    \/ \E u \in Usernames, p \in Passwords, wf \in BOOLEAN : PostLogin(c, u, p, wf)
    \/ \E data \in RegisterInputs, wf \in BOOLEAN : PostRegister(c, data, wf)
    \/ PostLogout(c)
    \/ GetEmployees(c)
    \/ \E data \in RegisterInputs, wf \in BOOLEAN : PostEmployees(c, data, wf)
    \/ \E route \in ReadRoutes : GetData(c, route)

FeedOps(c) ==
    \/ GetNotifications(c)
    \/ \E id \in NotificationIdInputs : MarkNotificationAsRead(c, id)
    \/ \E id \in NotificationIdInputs : DismissNotification(c, id)
    \/ MarkAllAsRead(c)
    \/ \E id \in NotificationIdInputs, a \in ActionTypes, d \in BOOLEAN :
           ExecuteNotificationAction(c, id, a, d)

\* the stock operations, requested one after the other by a single client
FirstClient == CHOOSE c \in Clients : \A d \in Clients : c <= d

NextStock ==
    \E c \in {FirstClient} :
        \/ ProductOps(c)
        \/ SaleRoute(c) \/ PurchaseRoute(c) \/ StockMovementRoute(c)
        \/ SaleTx(c) \/ PurchaseTx(c) \/ StockMovementTx(c)

SpecStock == InitStock /\ [][NextStock]_vars

\* every client records one sale, through the route or through the storage
\* operation, and their steps interleave
NextConcurrentSales ==
    \E c \in Clients :
        \/ /\ req[c].pc = "idle"
           /\ \E pid \in ProductIds, qty \in QtyInputs, price \in PriceInputs, wf \in BOOLEAN :
                  PostSales(c, pid, qty, price, wf)
        \/ PostSalesInsert(c)
        \/ PostSalesUpdate(c)
        \/ PostSalesRespond(c)
        \/ /\ req[c].pc = "idle"
           /\ \E pid \in ProductIds, qty \in QtyInputs, price \in PriceInputs :
                  createSale(c, pid, qty, price)
        \/ createSaleInsert(c)
        \/ createSaleUpdate(c)
        \/ createSaleCommit(c)

SpecConcurrentSales == InitConcurrentSales /\ [][NextConcurrentSales]_vars

\* signing in and out, the employee routes, the read routes and the sale route
NextAuth ==
    \E c \in Clients : AuthOps(c) \/ SaleRoute(c)

SpecAuth == InitAuth /\ [][NextAuth]_vars

\* nobody is signed in; an admin and an employee allowed to sell exist
InitFeed ==
    /\ InitCommon
    /\ users = <<AdminSeed({}), EmployeeSeed({"sales"}, TRUE)>>
    /\ sessions = [c \in Clients |-> 0]
    /\ products = StockedCatalog
    /\ productSeq = 1

SessionOps(c) ==
    \/ \E u \in Usernames, p \in Passwords, wf \in BOOLEAN : PostLogin(c, u, p, wf)
    \/ PostLogout(c)
    \/ \E route \in ReadRoutes : GetData(c, route)

\* the feed routes and the sale route (which feeds it), next to signing in and out
NextFeed ==
    \/ \E c \in Clients : SessionOps(c) \/ FeedOps(c) \/ SaleRoute(c)
    \/ Tick

SpecFeed == InitFeed /\ [][NextFeed]_vars

(***************************************************************************)
(* The permission gates, entered with the sessions already established.    *)
(***************************************************************************)
\* the clients in acting are signed in as the admin, as the employee, or not
\* at all; the others hold no session
SignedIn(acting) ==
    /\ InitCommon
    /\ \E pa \in PermissionChoices, pe \in PermissionChoices :
           users = <<AdminSeed(pa), EmployeeSeed(pe, TRUE)>>
    /\ sessions \in {f \in [Clients -> 0..2] : \A c \in Clients \ acting : f[c] = 0}
    /\ products = StockedCatalog
    /\ productSeq = 1

InitSalesGate == SignedIn({FirstClient})

\* POST /api/sales, one request after the other
NextSalesGate == \E c \in {FirstClient} : SaleRoute(c)

SpecSalesGate == InitSalesGate /\ [][NextSalesGate]_vars

InitEmployeesGate == SignedIn(Clients)

\* GET and POST /api/employees
NextEmployeesGate ==
    \E c \in Clients :
        \/ GetEmployees(c)
        \/ \E data \in RegisterInputs, wf \in BOOLEAN : PostEmployees(c, data, wf)

SpecEmployeesGate == InitEmployeesGate /\ [][NextEmployeesGate]_vars

(***************************************************************************)
(* Replaying the records.                                                  *)
(***************************************************************************)
RECURSIVE Sum(_)
\* the sum of a sequence of integers
Sum(seq) == IF seq = <<>> THEN 0 ELSE Head(seq) + Sum(Tail(seq))

\* Purchase +quantityReceived, Sale -quantitySold, StockMovement +quantity for
\* 'in' and -quantity for 'out', each for the rows of product pid
Replay(pid) ==
    LET Of(row, n) == IF row.productId = pid THEN n ELSE 0
        P == [i \in 1..Len(purchases) |->
                 Of(purchases[i], purchases[i].quantityReceived)]
        S == [i \in 1..Len(sales) |-> Of(sales[i], 0 - sales[i].quantitySold)]
        M == [i \in 1..Len(stockMovements) |->
                 Of(stockMovements[i],
                    IF stockMovements[i].movementType = "in"
                    THEN stockMovements[i].quantity
                    ELSE IF stockMovements[i].movementType = "out"
                    THEN 0 - stockMovements[i].quantity
                    ELSE 0)]
    IN  Sum(P) + Sum(S) + Sum(M)

SaleOps == {"postSales", "createSale"}

PurchaseOps == {"postPurchases", "createPurchase"}

MovementOps == {"postStockMovements", "createStockMovement"}

StockOps == SaleOps \cup PurchaseOps \cup MovementOps

\* client c takes a step of its request
Steps(c) == req'[c] # req[c]

\* client c's request starts (and, for a one-statement route, ends) in this step
Starts(c, ops) == Steps(c) /\ ~InFlight(c) /\ req'[c].op \in ops

Authenticated(c) ==
    sessions[c] # 0 /\ UserExists(sessions[c]) /\ users[sessions[c]].isActive

Succeeded(r) == r.pc = "done" /\ r.status \in {"200", "201", "resolved"}

(***************************************************************************)
(* C1.  For every product the stored stockQuantity equals the replay, from *)
(* zero, of its recorded purchases (+), sales (-) and stock movements      *)
(* (+ for 'in', - for 'out').                                              *)
(***************************************************************************)
C1_NoDrift ==
    \A p \in ProductIds :
        products[p].exists => products[p].stockQuantity = Replay(p)

(***************************************************************************)
(* C2.  Two sale requests run concurrently on product 1, which starts with *)
(* the stock of StockedCatalog: when their combined quantity exceeds that  *)
(* stock exactly one of them succeeds, and the stock is never negative.    *)
(***************************************************************************)
InitialStock == StockedCatalog[1].stockQuantity

C2_ConcurrentSales ==
    /\ products[1].stockQuantity >= 0
    /\ \A c, d \in Clients :
           ( /\ c # d
             /\ req[c].op \in SaleOps /\ req[c].pc = "done" /\ req[c].status # "500"
             /\ req[d].op \in SaleOps /\ req[d].pc = "done" /\ req[d].status # "500"
             /\ req[c].qty >= 1 /\ req[d].qty >= 1
             /\ req[c].qty + req[d].qty > InitialStock )
           => (Succeeded(req[c]) /\ ~Succeeded(req[d])) \/ (Succeeded(req[d]) /\ ~Succeeded(req[c]))

(***************************************************************************)
(* C3.  A sale (POST /api/sales, createSale) whose quantity exceeds the    *)
(* product's current stock is rejected: while it runs no sale row is       *)
(* written and no stock changes.                                           *)
(***************************************************************************)
Exceeds(r) ==
    products[r.pid].exists /\ r.qty > products[r.pid].stockQuantity

C3_SaleExceedingStockRejected ==
    [][\A c \in Clients :
          (InFlight(c) /\ req[c].op \in SaleOps /\ Exceeds(req[c]))
          => (sales' = sales /\ products' = products)]_vars

(***************************************************************************)
(* C4.  An 'out' stock movement (POST /api/stock-movements,                *)
(* createStockMovement) whose quantity exceeds the product's current stock *)
(* is rejected: while it runs no movement row is written and no stock      *)
(* changes.                                                                *)
(***************************************************************************)
C4_OutMovementExceedingStockRejected ==
    [][\A c \in Clients :
          (InFlight(c) /\ req[c].op \in MovementOps /\ req[c].mtype = "out"
              /\ Exceeds(req[c]))
          => (stockMovements' = stockMovements /\ products' = products)]_vars

(***************************************************************************)
(* C5.  Recording a purchase, a sale or a stock movement is all-or-        *)
(* nothing: once the operation has ended, either its row exists and the    *)
(* stock was adjusted by its quantity, or no row exists and the stock was  *)
(* not adjusted.                                                           *)
(***************************************************************************)
Intended(r) ==
    IF r.op \in SaleOps THEN 0 - r.qty
    ELSE IF r.op \in PurchaseOps THEN r.qty
    ELSE stockChange(r.mtype, r.qty)

C5_AllOrNothing ==
    \A c \in Clients :
        (req[c].pc = "done" /\ req[c].op \in StockOps)
        => \/ req[c].wrote /\ req[c].delta = Intended(req[c])
           \/ ~req[c].wrote /\ req[c].delta = 0

(***************************************************************************)
(* C6.  Only recording a purchase, a sale or a stock movement changes a    *)
(* product's stockQuantity; updating a product leaves it alone.            *)
(***************************************************************************)
C6_OnlyStockOperationsChangeStock ==
    [][\A p \in ProductIds :
          ( /\ products[p].exists /\ products'[p].exists
            /\ products'[p].stockQuantity # products[p].stockQuantity )
          => \E c \in Clients : Steps(c) /\ req'[c].op \in StockOps]_vars

(***************************************************************************)
(* C7.  POST /api/sales by a signed-in employee without the 'sales'        *)
(* permission is answered 403, writes no sale row and changes no stock; a  *)
(* signed-in admin is never answered 403, whatever its permissions array;  *)
(* and a sale row is only ever written, and stock only ever changed, for   *)
(* an admin or a holder of 'sales'.                                        *)
(***************************************************************************)
MaySell(user) ==
    user # 0 /\ (users[user].role = "admin" \/ "sales" \in users[user].permissions)

C7_SalesPermission ==
    [][\A c \in Clients :
          /\ (Starts(c, {"postSales"}) /\ Authenticated(c))
             => /\ ~MaySell(sessions[c])
                   => /\ req'[c].pc = "done" /\ req'[c].status = "403"
                      /\ sales' = sales /\ products' = products
                /\ users[sessions[c]].role = "admin" => req'[c].status # "403"
          /\ (Steps(c) /\ req[c].op = "postSales" /\ InFlight(c)
                 /\ (sales' # sales \/ products' # products))
             => MaySell(req[c].user)]_vars

\* an employee who lacks 'sales' has asked for a sale and was answered 403
C7_Witness ==
    \E c \in Clients :
        /\ req[c].op = "postSales" /\ req[c].status = "403"
        /\ users[req[c].user].role = "employee"
        /\ "sales" \notin users[req[c].user].permissions
        /\ sales = <<>> /\ products = StockedCatalog

(***************************************************************************)
(* C8.  Every data route checks the session first: a request without a     *)
(* session user id, or whose session user does not exist, is answered 401  *)
(* and changes neither the stored data nor the notification feed.          *)
(***************************************************************************)
DataOps ==
    {"get", "getEmployees", "postEmployees", "postProducts", "putProduct",
     "deleteProduct", "postSales", "postPurchases", "postStockMovements",
     "getNotifications", "markNotificationAsRead", "dismissNotification",
     "markAllAsRead", "executeNotificationAction"}

C8_EveryDataRouteChecksSession ==
    [][\A c \in Clients :
          (Starts(c, DataOps) /\ (sessions[c] = 0 \/ ~UserExists(sessions[c])))
          => /\ req'[c].pc = "done" /\ req'[c].status = "401"
             /\ UNCHANGED <<users, products, records, notifications>>]_vars

(***************************************************************************)
(* C9.  GET and POST /api/employees succeed only for a signed-in admin; a  *)
(* signed-in employee is answered 403 and no user row is created, whatever *)
(* permissions the employee holds.                                         *)
(***************************************************************************)
C9_EmployeesAdminOnly ==
    [][\A c \in Clients :
          Starts(c, {"getEmployees", "postEmployees"})
          => /\ Succeeded(req'[c])
                => Authenticated(c) /\ users[sessions[c]].role = "admin"
             /\ (Authenticated(c) /\ users[sessions[c]].role = "employee")
                => req'[c].status = "403" /\ users' = users]_vars

\* an employee holding permissions has posted to /api/employees and was answered 403
C9_Witness ==
    \E c \in Clients :
        /\ req[c].op = "postEmployees" /\ req[c].status = "403"
        /\ users[req[c].user].role = "employee"
        /\ users[req[c].user].permissions # {}

(***************************************************************************)
(* C10.  A user row is only ever created by the request of a signed-in     *)
(* admin.                                                                  *)
(***************************************************************************)
C10_UsersCreatedByAdminOnly ==
    [][users' # users
          => \E c \in Clients :
                 /\ Steps(c)
                 /\ Authenticated(c) /\ users[sessions[c]].role = "admin"]_vars

(***************************************************************************)
(* A soft-disabled user.  No route writes users.isActive: the flag is      *)
(* cleared in the database, so the employee starts disabled, with sessions *)
(* that were established while the account was still active.               *)
(***************************************************************************)
InitInactive ==
    /\ InitCommon
    /\ users = <<AdminSeed({}), EmployeeSeed({"sales"}, FALSE)>>
    /\ sessions \in [Clients -> 0..2]
    /\ products = StockedCatalog
    /\ productSeq = 1

NextInactive ==
    \E c \in Clients :
        \/ AuthOps(c)
        \/ GetNotifications(c)
        \/ MarkAllAsRead(c)

SpecInactive == InitInactive /\ [][NextInactive]_vars

Inactive(u) == u # 0 /\ UserExists(u) /\ ~users[u].isActive

(***************************************************************************)
(* C11.  Once a user's isActive flag is false: no login establishes a      *)
(* session for that user; every request on a data route that carries a     *)
(* session established earlier for that user is answered 401 and the       *)
(* session is destroyed; and no operation removes a user row.              *)
(***************************************************************************)
C11_InactiveUserLockedOut ==
    [][\A c \in Clients :
          /\ Starts(c, {"login"})
             => /\ Succeeded(req'[c]) => ~Inactive(req'[c].user)
                /\ sessions'[c] # sessions[c] => ~Inactive(sessions'[c])
          /\ (Starts(c, DataOps) /\ Inactive(sessions[c]))
             => /\ req'[c].pc = "done" /\ req'[c].status = "401"
                /\ sessions'[c] = 0
          /\ /\ Len(users') >= Len(users)
             /\ \A i \in 1..Len(users) : users'[i].username = users[i].username]_vars

(***************************************************************************)
(* The client's router (App.tsx).                                          *)
(***************************************************************************)
\* the pages wrapped in RouteGuard
Pages ==
    {"/dashboard", "/products", "/categories", "/sales", "/purchases",
     "/stock-movement", "/users", "/reports"}

\* <ProtectedRoute requiredRole=...>, "" when the page passes none
requiredRole(path) == IF path = "/users" THEN "admin" ELSE ""

\* <ProtectedRoute requiredPermission=...>, "" when the page passes none
requiredPermission(path) ==
    IF path = "/sales" THEN "sales"
    ELSE IF path = "/purchases" THEN "purchases"
    ELSE IF path = "/stock-movement" THEN "stock_in"
    ELSE IF path = "/reports" THEN "view_reports"
    ELSE ""

\* ProtectedRoute: where it navigates to, or "children" when it renders the page
ProtectedRoute(user, role, permission) ==
    IF user = 0 THEN "/login"
    ELSE IF role # "" /\ users[user].role # role THEN "/"
    ELSE IF permission # "" /\ permission \notin users[user].permissions THEN "/"
    ELSE "children"

\* the browser opens a page: useAuth fetches /api/auth/user, RouteGuard sends an
\* unauthenticated visitor to /login, ProtectedRoute decides the rest
Navigate(c, path) ==
    /\ CanStart(c)
    /\ nreq' = nreq + 1
    /\ LET g == Gate(TRUE, FALSE, "")
           user == GateUser(c, g)
           r == [NewReq("navigate", user) EXCEPT !.path = path]
       IN  /\ req' = [req EXCEPT ![c] =
                         Answered(r, IF user = 0 THEN "/login"
                                     ELSE ProtectedRoute(user, requiredRole(path),
                                                         requiredPermission(path)))]
           /\ sessions' = SessionsAfterGate(c, g)
    /\ UNCHANGED <<categories, users, catalog, rowLock, records, notifications, now>>

InitPages == SignedIn(Clients)

NextPages == \E c \in Clients, path \in Pages : Navigate(c, path)

SpecPages == InitPages /\ [][NextPages]_vars

PermissionPages == {path \in Pages : requiredPermission(path) # ""}

(***************************************************************************)
(* C12.  The client route guard admits a signed-in admin to every          *)
(* permission-gated page (sales, purchases, stock-movement, reports),      *)
(* whatever the admin's permissions array holds.                           *)
(***************************************************************************)
C12_AdminAdmittedToEveryPage ==
    \A c \in Clients :
        ( /\ req[c].op = "navigate" /\ req[c].pc = "done"
          /\ req[c].user # 0 /\ users[req[c].user].role = "admin"
          /\ req[c].path \in PermissionPages )
        => req[c].status = "children"

(***************************************************************************)
(* Error responses.                                                        *)
(***************************************************************************)
\* the message a failed request carries: the JSON body's message of a route,
\* the Error's message of a storage operation; "" when the request succeeded
ErrorMessage(r) ==
    IF r.status \in {"none", "200", "201", "resolved"} THEN ""
    ELSE IF r.status = "401" THEN "Authentication required"
    ELSE IF r.status = "403" THEN "Permission denied"
    ELSE IF r.op = "createSale" THEN "Insufficient stock"
    ELSE IF r.op = "postStockMovements"
         THEN IF r.status = "400" THEN "Insufficient stock available"
              ELSE "Failed to create stock movement"
    ELSE IF r.op = "postSales" THEN "Failed to create sale"
    ELSE IF r.op = "postPurchases" THEN "Failed to create purchase"
    ELSE "Internal server error"

\* the admin is signed in on the first client; the catalogue is empty or holds
\* product 1 with some stock
InitDomainErrors ==
    /\ InitCommon
    /\ users = <<AdminSeed({})>>
    /\ sessions = [c \in Clients |-> IF c = FirstClient THEN 1 ELSE 0]
    /\ \E stock \in StockInputs, absent \in BOOLEAN :
           products = [p \in ProductIds |->
                          IF p = 1 /\ ~absent
                          THEN ProductRow(stock, DefaultLowStockThreshold, 1)
                          ELSE NoProduct]
    /\ productSeq = 1

\* one sale or one stock movement
NextDomainErrors ==
    \E c \in {FirstClient} :
        \/ /\ req[c].pc = "idle"
           /\ \E pid \in ProductIds, qty \in QtyInputs, price \in PriceInputs, wf \in BOOLEAN :
                  PostSales(c, pid, qty, price, wf)
        \/ PostSalesInsert(c)
        \/ PostSalesUpdate(c)
        \/ PostSalesRespond(c)
        \/ /\ req[c].pc = "idle"
           /\ \E pid \in ProductIds, qty \in QtyInputs, price \in PriceInputs :
                  createSale(c, pid, qty, price)
        \/ createSaleInsert(c)
        \/ createSaleUpdate(c)
        \/ createSaleCommit(c)
        \/ /\ req[c].pc = "idle"
           /\ \E pid \in ProductIds, mtype \in MovementTypes, qty \in QtyInputs, wf \in BOOLEAN :
                  PostStockMovements(c, pid, mtype, qty, wf)
        \/ PostStockMovementsCheck(c)
        \/ PostStockMovementsInsert(c)
        \/ PostStockMovementsUpdate(c)
        \/ PostStockMovementsRespond(c)

SpecDomainErrors == InitDomainErrors /\ [][NextDomainErrors]_vars

GenericMessages ==
    {"Failed to create sale", "Failed to create stock movement",
     "Failed to create purchase", "Internal server error"}

\* the request of client c is refused in this step for insufficient stock
RefusedForStock(c) ==
    \/ /\ Steps(c) /\ At(c, "postStockMovements", "check")
       /\ InsufficientStock(products[req[c].pid], req[c].qty)
    \/ /\ Starts(c, {"createSale"})
       /\ InsufficientStock(products[req'[c].pid], req'[c].qty)

(***************************************************************************)
(* C13.  A sale or an 'out' stock movement refused for insufficient stock  *)
(* ends with an error that names the cause and is not the generic internal *)
(* error (400 'Insufficient stock available' from the route, an Error      *)
(* 'Insufficient stock' from createSale); every other failure of a sale or *)
(* stock movement ends with the generic internal error (500).              *)
(***************************************************************************)
C13_DomainErrorDistinguished ==
    [][\A c \in Clients :
          /\ RefusedForStock(c)
             => /\ req'[c].pc = "done" /\ req'[c].status \in {"400", "rejected"}
                /\ ErrorMessage(req'[c]) \in
                       {"Insufficient stock available", "Insufficient stock"}
                /\ ErrorMessage(req'[c]) \notin GenericMessages
          /\ ( /\ Steps(c) /\ req'[c].pc = "done"
               /\ req'[c].op \in SaleOps \cup MovementOps
               /\ ~Succeeded(req'[c]) /\ req'[c].status \notin {"401", "403"}
               /\ ~RefusedForStock(c) )
             => /\ req'[c].status = "500"
                /\ ErrorMessage(req'[c]) \in GenericMessages]_vars

\* an 'out' movement larger than the stock was answered 400
C13_Witness ==
    \E c \in Clients :
        /\ req[c].op = "postStockMovements" /\ req[c].mtype = "out"
        /\ req[c].pc = "done" /\ req[c].status = "400"
        /\ products[req[c].pid].exists
        /\ products[req[c].pid].stockQuantity < req[c].qty
        /\ stockMovements = <<>>

(***************************************************************************)
(* C14.  A purchase, sale or stock movement that names a product id with   *)
(* no product row is rejected as an error and writes no purchase, sale or  *)
(* movement row.                                                           *)
(***************************************************************************)
C14_UnknownProductRejected ==
    [][\A c \in Clients :
          /\ (InFlight(c) /\ req[c].op \in StockOps /\ ~products[req[c].pid].exists)
             => /\ records' = records
                /\ req'[c].pc = "done" => ~Succeeded(req'[c])
          /\ (Starts(c, StockOps) /\ req'[c].pid # 0 /\ ~products[req'[c].pid].exists)
             => ~Succeeded(req'[c])]_vars

\* the sale of client c is written in this step (the route's INSERT, the
\* transaction's COMMIT)
SaleWritten(c) ==
    Steps(c) /\ (At(c, "postSales", "insert") \/ At(c, "createSale", "txCommit"))

\* the stock of the sale's product is adjusted in this step (the route's
\* UPDATE, the transaction's COMMIT)
SaleApplied(c) ==
    /\ Steps(c)
    /\ At(c, "postSales", "update") \/ At(c, "createSale", "txCommit")
    /\ products[req[c].pid].exists

NextConcurrentPurchases ==
    \E c \in Clients :
        \/ /\ req[c].pc = "idle"
           /\ \E pid \in ProductIds, qty \in QtyInputs, price \in PriceInputs, wf \in BOOLEAN :
                  PostPurchases(c, pid, qty, price, wf)
        \/ PostPurchasesInsert(c)
        \/ PostPurchasesUpdate(c)
        \/ PostPurchasesRespond(c)
        \/ /\ req[c].pc = "idle"
           /\ \E pid \in ProductIds, qty \in QtyInputs, price \in PriceInputs :
                  createPurchase(c, pid, qty, price)
        \/ createPurchaseUpdate(c)
        \/ createPurchaseCommit(c)

SpecConcurrentPurchases == InitConcurrentSales /\ [][NextConcurrentPurchases]_vars

\* the purchase of client c is written in this step
PurchaseWritten(c) ==
    Steps(c) /\ (At(c, "postPurchases", "insert") \/ At(c, "createPurchase", "txCommit"))

\* the stock of the purchase's product is adjusted in this step
PurchaseApplied(c) ==
    /\ Steps(c)
    /\ At(c, "postPurchases", "update") \/ At(c, "createPurchase", "txCommit")
    /\ products[req[c].pid].exists

CostInputs == {3, 4}

NextLedger ==
    \E c \in {FirstClient} :
        \/ \E pid \in ProductIds, cost \in CostInputs :
               PostPurchases(c, pid, 1, cost, TRUE)
        \/ PostPurchasesInsert(c)
        \/ PostPurchasesUpdate(c)
        \/ PostPurchasesRespond(c)
        \/ \E pid \in ProductIds, price \in PriceInputs : createSale(c, pid, 1, price)
        \/ createSaleInsert(c)
        \/ createSaleUpdate(c)
        \/ createSaleCommit(c)
        \/ \E pid \in ProductIds, mtype \in {"in", "out"} :
               createStockMovement(c, pid, mtype, 1)
        \/ createStockMovementUpdate(c)
        \/ createStockMovementCommit(c)
        \/ \E id \in ProductIds, patch \in PatchInputs : PutProduct(c, id, patch, TRUE)
        \/ \E id \in ProductIds : DeleteProduct(c, id)

SpecLedger == InitConcurrentSales /\ [][NextLedger]_vars

\* table after is table before, or table before with one row appended
Appended(before, after) ==
    /\ Len(after) \in {Len(before), Len(before) + 1}
    /\ SubSeq(after, 1, Len(before)) = before

(***************************************************************************)
(* C17.  Purchases, sales and stock movements are append-only: no step,    *)
(* deleting or updating the product included, changes or removes an        *)
(* existing row; a step adds at most one row, and every create that        *)
(* succeeded added exactly one row to its own table.                       *)
(***************************************************************************)
C17_RecordsAppendOnly ==
    [][/\ Appended(purchases, purchases')
       /\ Appended(sales, sales')
       /\ Appended(stockMovements, stockMovements')
       /\ Len(purchases') + Len(sales') + Len(stockMovements')
              <= Len(purchases) + Len(sales) + Len(stockMovements) + 1
       /\ \A c \in Clients :
             /\ (Steps(c) /\ InFlight(c) /\ req'[c].wrote /\ ~req[c].wrote)
                => /\ req'[c].op \in StockOps
                   /\ Len(purchases') = Len(purchases)
                          + (IF req'[c].op \in PurchaseOps THEN 1 ELSE 0)
                   /\ Len(sales') = Len(sales)
                          + (IF req'[c].op \in SaleOps THEN 1 ELSE 0)
                   /\ Len(stockMovements') = Len(stockMovements)
                          + (IF req'[c].op \in MovementOps THEN 1 ELSE 0)
             /\ (Steps(c) /\ req'[c].op \in StockOps /\ Succeeded(req'[c]))
                => req'[c].wrote
             /\ (Steps(c) /\ req'[c].op \notin StockOps) => records' = records]_vars

\* two purchases of product 1 at different costs are two rows, still there
\* after the product was deleted
C17_Witness ==
    /\ Len(purchases) = 2
    /\ purchases[1].productId = 1 /\ purchases[2].productId = 1
    /\ purchases[1].costPerUnit # purchases[2].costPerUnit
    /\ ~products[1].exists
    /\ \E c \in Clients : req[c].op = "deleteProduct" /\ Succeeded(req[c])

(***************************************************************************)
(* Categories: POST /api/categories/main, POST /api/categories/sub, and    *)
(* the catalogue built from nothing.                                       *)
(***************************************************************************)
CategoryNames == {"a", "b"}

MainCategoryInputs == {1, 2}

SubCategoryInputs == {1, 2}

\* main_categories.name is unique: a second row of the same name is refused by the insert
NameTaken(name) == \E i \in 1..Len(mainCategories) : mainCategories[i].name = name

\* POST /api/categories/main -> storage.createMainCategory
PostMainCategory(c, name, wellFormed) ==
    /\ ~InFlight(c)
    /\ Len(mainCategories) < MaxCategories
    /\ sessions' = SessionsAfterGate(c, ProductsGate)
    /\ LET verdict == RunGate(c, ProductsGate)
           r == NewReq("postMainCategory", GateUser(c, ProductsGate))
       IN  IF verdict # "next"
           THEN /\ req' = [req EXCEPT ![c] = Answered(r, verdict)]
                /\ UNCHANGED mainCategories
           ELSE IF ~wellFormed \/ NameTaken(name)
           THEN /\ req' = [req EXCEPT ![c] = Answered(r, "500")]
                /\ UNCHANGED mainCategories
           ELSE /\ mainCategories' = Append(mainCategories, MainCategoryRow(name))
                /\ req' = [req EXCEPT ![c] = Answered(r, "200")]
    /\ UNCHANGED <<users, catalog, rowLock, records, notifications, now, nreq,
                   subCategories>>

\* POST /api/categories/sub -> storage.createSubCategory
PostSubCategory(c, mainCategoryId, wellFormed) ==
    /\ ~InFlight(c)
    /\ Len(subCategories) < MaxCategories
    /\ sessions' = SessionsAfterGate(c, ProductsGate)
    /\ LET verdict == RunGate(c, ProductsGate)
           r == NewReq("postSubCategory", GateUser(c, ProductsGate))
       IN  IF verdict # "next"
           THEN /\ req' = [req EXCEPT ![c] = Answered(r, verdict)]
                /\ UNCHANGED subCategories
           ELSE IF ~wellFormed
           THEN /\ req' = [req EXCEPT ![c] = Answered(r, "500")]
                /\ UNCHANGED subCategories
           ELSE /\ subCategories' = Append(subCategories, SubCategoryRow(mainCategoryId))
                /\ req' = [req EXCEPT ![c] = Answered(r, "200")]
    /\ UNCHANGED <<users, catalog, rowLock, records, notifications, now, nreq,
                   mainCategories>>

\* a fresh database: the admin is signed in, no category and no product exists
InitCatalog ==
    /\ users = <<AdminSeed({})>>
    /\ sessions = [c \in Clients |-> IF c = FirstClient THEN 1 ELSE 0]
    /\ products = [p \in ProductIds |-> NoProduct]
    /\ productSeq = 0
    /\ rowLock = [p \in ProductIds |-> 0]
    /\ purchases = <<>>
    /\ sales = <<>>
    /\ stockMovements = <<>>
    /\ notifications = SeedNotifications
    /\ now = StartTime
    /\ req = [c \in Clients |-> IdleReq]
    /\ nreq = 0
    /\ mainCategories = <<>>
    /\ subCategories = <<>>

NextCatalog ==
    \E c \in {FirstClient} :
        \/ \E name \in CategoryNames, wf \in BOOLEAN : PostMainCategory(c, name, wf)
        \/ \E m \in MainCategoryInputs, wf \in BOOLEAN : PostSubCategory(c, m, wf)
        \/ \E stock \in StockInputs, sub \in SubCategoryInputs, wf \in BOOLEAN :
               PostProducts(c, stock, DefaultLowStockThreshold, sub, wf)
        \/ \E id \in ProductIds : DeleteProduct(c, id)

SpecCatalog == InitCatalog /\ [][NextCatalog]_vars

SubCategoryExists(id) == id \in 1..Len(subCategories)

MainCategoryExists(id) == id \in 1..Len(mainCategories)

\* C18: in every reachable state every product's subCategoryId names an
\* existing sub-category and every sub-category's mainCategoryId names an
\* existing main category.
C18_ReferencesResolve ==
    /\ \A p \in ProductIds :
           products[p].exists => SubCategoryExists(products[p].subCategoryId)
    /\ \A i \in 1..Len(subCategories) :
           MainCategoryExists(subCategories[i].mainCategoryId)

\* the number of product rows filed under sub-category sub
ProductsUnder(sub, table) ==
    Cardinality({p \in ProductIds : table[p].exists /\ table[p].subCategoryId = sub})

\* product id is stored under an existing sub-category of an existing main category
Filed(id) ==
    /\ products[id].exists
    /\ SubCategoryExists(products[id].subCategoryId)
    /\ MainCategoryExists(subCategories[products[id].subCategoryId].mainCategoryId)

\* C19: once a main category, a sub-category under it and a product under
\* that sub-category exist, a successful DELETE /api/products/:id of the
\* product removes exactly its row: the number of products under the
\* sub-category drops by one, every other product row and every main- and
\* sub-category row stays as it was.
C19_DeleteRemovesOnlyTheProduct ==
    [][\A c \in Clients, id \in ProductIds :
           ( /\ Starts(c, {"deleteProduct"})
             /\ req'[c].pid = id
             /\ Succeeded(req'[c])
             /\ Filed(id) )
           => /\ products' = [products EXCEPT ![id] = NoProduct]
              /\ ProductsUnder(products[id].subCategoryId, products')
                     = ProductsUnder(products[id].subCategoryId, products) - 1
              /\ mainCategories' = mainCategories
              /\ subCategories' = subCategories]_vars

\* the product created under sub-category 1 of main category 1 has been deleted
C19_Witness ==
    /\ MainCategoryExists(1)
    /\ SubCategoryExists(1)
    /\ subCategories[1].mainCategoryId = 1
    /\ productSeq = 1
    /\ ~products[1].exists
    /\ \E c \in Clients :
           req[c].op = "deleteProduct" /\ req[c].pid = 1 /\ Succeeded(req[c])

(***************************************************************************)
(* The feed routes that read, mark and remove single notifications,        *)
(* requested by any client, signed in or not.                              *)
(***************************************************************************)
NextMarkRead ==
    \E c \in Clients :
        \/ GetNotifications(c)
        \/ \E id \in NotificationIdInputs : MarkNotificationAsRead(c, id)
        \/ \E id \in NotificationIdInputs : DismissNotification(c, id)

SpecMarkRead == InitFeed /\ [][NextMarkRead]_vars

\* C20: markNotificationAsRead on an existing notification succeeds and sets
\* that notification's read flag, changing no other notification; applied to
\* a notification that is already read (a second application) it succeeds
\* again and leaves the feed exactly as the first application left it.
C20_MarkReadIdempotent ==
    [][\A c \in Clients, id \in NotificationIdInputs :
           ( /\ Starts(c, {"markNotificationAsRead"})
             /\ req'[c].nid = id
             /\ findIndex(notifications, id) # 0 )
           => LET i == findIndex(notifications, id)
              IN  /\ Succeeded(req'[c])
                  /\ Len(notifications') = Len(notifications)
                  /\ notifications'[i].read
                  /\ \A j \in 1..Len(notifications) :
                         /\ j # i => notifications'[j] = notifications[j]
                         /\ notifications'[j].id = notifications[j].id
                  /\ notifications[i].read => notifications' = notifications]_vars

\* two requests have marked notification 1, unread at the start, and both succeeded
C20_Witness ==
    /\ nreq = 2
    /\ \E c, d \in Clients :
           /\ c # d
           /\ \A e \in {c, d} :
                  /\ req[e].op = "markNotificationAsRead"
                  /\ req[e].nid = 1
                  /\ Succeeded(req[e])
    /\ findIndex(notifications, 1) # 0
    /\ notifications[findIndex(notifications, 1)].read

\* the tables behind the data routes
stored == <<users, catalog, categories, records>>

\* C21: executeNotificationAction on an existing notification answers with
\* success, sets that notification's read flag and changes nothing else in
\* the feed or in the stored data, whatever the action type and the body; on
\* an unknown id it answers not-found and changes nothing.
C21_ExecuteActionOnlyMarksRead ==
    [][\A c \in Clients :
           Starts(c, {"executeNotificationAction"})
           => LET i == findIndex(notifications, req'[c].nid)
              IN  /\ UNCHANGED stored
                  /\ IF i = 0
                     THEN /\ req'[c].status = "404"
                          /\ UNCHANGED notifications
                     ELSE /\ Succeeded(req'[c])
                          /\ notifications' = [notifications EXCEPT ![i].read = TRUE]]_vars

(***************************************************************************)
(* The feed under every notification route, with sales adding              *)
(* notifications and the clock advancing.                                  *)
(***************************************************************************)
NextFeedList ==
    \/ \E c \in {FirstClient} :
           \/ FeedOps(c)
           \/ \E pid \in ProductIds, price \in PriceInputs : PostSales(c, pid, 1, price, TRUE)
           \/ PostSalesInsert(c)
           \/ PostSalesUpdate(c)
           \/ PostSalesRespond(c)
    \/ Tick

SpecFeedList == InitConcurrentSales /\ [][NextFeedList]_vars

\* the two feeds hold the same notifications, each as many times
SameNotifications(a, b) ==
    /\ Len(a) = Len(b)
    /\ \A i \in 1..Len(a) :
           Cardinality({j \in 1..Len(a) : a[j] = a[i]})
               = Cardinality({j \in 1..Len(b) : b[j] = a[i]})

NewestFirst(feed) ==
    \A i, j \in 1..Len(feed) : i < j => feed[i].createdAt >= feed[j].createdAt

\* C22: whatever was added, marked, dismissed or executed before,
\* getNotifications answers with every notification that is in the feed,
\* ordered by creation time, the newest first (the answer is the feed array
\* itself, sorted in place).
C22_ListNewestFirst ==
    [][\A c \in Clients :
           Starts(c, {"getNotifications"})
           => /\ Succeeded(req'[c])
              /\ SameNotifications(notifications, notifications')
              /\ NewestFirst(notifications')]_vars

\* the list was read after a sale added a notification and a seed was dismissed
C22_Witness ==
    /\ \E c \in Clients : req[c].op = "getNotifications" /\ Succeeded(req[c])
    /\ \E i \in 1..Len(notifications) : notifications[i].type = "new_sale"
                                          /\ notifications[i].id >= StartTime
    /\ findIndex(notifications, 1) = 0
    /\ NewestFirst(notifications)

\* client c's request is answered in this step
Ends(c, ops) == Steps(c) /\ req'[c].pc = "done" /\ req'[c].op \in ops

\* the unread notifications of a type in a feed
Unread(feed, type) == {i \in 1..Len(feed) : feed[i].type = type /\ ~feed[i].read}

\* C23: a sale request that succeeds pushes exactly one unread new_sale
\* notification, a purchase request that succeeds exactly one unread
\* new_purchase notification; a sale or purchase request that is rejected or
\* fails pushes none and leaves no record behind.
C23_SaleAndPurchaseNotify ==
    [][\A c \in Clients :
           /\ ( Ends(c, {"postSales"}) /\ Succeeded(req'[c]) )
              => Cardinality(Unread(notifications', "new_sale"))
                     = Cardinality(Unread(notifications, "new_sale")) + 1
           /\ ( Ends(c, {"postPurchases"}) /\ Succeeded(req'[c]) )
              => Cardinality(Unread(notifications', "new_purchase"))
                     = Cardinality(Unread(notifications, "new_purchase")) + 1
           /\ ( Ends(c, {"postSales", "postPurchases"}) /\ ~Succeeded(req'[c]) )
              => /\ notifications' = notifications
                 /\ ~req'[c].wrote]_vars

\* C24: every POST /api/employees that creates the employee pushes a
\* notification (the employee-added one) into the feed.
C24_EmployeeCreationNotifies ==
    [][\A c \in Clients :
           ( Ends(c, {"postEmployees"}) /\ Succeeded(req'[c]) )
           => /\ Len(notifications') = Len(notifications) + 1
              /\ SubSeq(notifications', 2, Len(notifications')) = notifications]_vars

\* the low_stock notifications a step pushes
PushedLowStock ==
    Cardinality(Unread(notifications', "low_stock"))
        - Cardinality(Unread(notifications, "low_stock"))

\* C25: a sale or a stock movement that succeeds pushes a low_stock
\* notification exactly when it takes the product's stock from above the
\* product's lowStockThreshold to at or below it, and the notification
\* carries the stock that is stored after the operation.
C25_LowStockOnCrossing ==
    [][\A c \in Clients :
           ( Ends(c, {"postSales", "postStockMovements"}) /\ Succeeded(req'[c]) )
           => LET product == products'[req'[c].pid]
                  after == product.stockQuantity
                  before == after - req'[c].delta
                  crossing == /\ before > product.lowStockThreshold
                              /\ after <= product.lowStockThreshold
              IN  /\ PushedLowStock = (IF crossing THEN 1 ELSE 0)
                  /\ crossing => notifications'[1].currentStock = after]_vars

(***************************************************************************)
(* Every client runs one purchase, sale or stock movement on product 1,    *)
(* through the route or through the storage operation, and their steps     *)
(* interleave.                                                             *)
(***************************************************************************)
NextConcurrentStock ==
    \E c \in Clients :
        \/ /\ req[c].pc = "idle"
           /\ \E qty \in {1, MaxQty}, price \in PriceInputs :
                  PostSales(c, 1, qty, price, TRUE)
        \/ PostSalesInsert(c)
        \/ PostSalesUpdate(c)
        \/ PostSalesRespond(c)
        \/ /\ req[c].pc = "idle"
           /\ \E qty \in {1, MaxQty}, price \in PriceInputs :
                  createSale(c, 1, qty, price)
        \/ createSaleInsert(c)
        \/ createSaleUpdate(c)
        \/ createSaleCommit(c)
        \/ /\ req[c].pc = "idle"
           /\ \E qty \in {1, MaxQty}, price \in PriceInputs :
                  PostPurchases(c, 1, qty, price, TRUE)
        \/ PostPurchasesInsert(c)
        \/ PostPurchasesUpdate(c)
        \/ PostPurchasesRespond(c)
        \/ /\ req[c].pc = "idle"
           /\ \E qty \in {1, MaxQty}, price \in PriceInputs :
                  createPurchase(c, 1, qty, price)
        \/ createPurchaseUpdate(c)
        \/ createPurchaseCommit(c)
        \/ /\ req[c].pc = "idle"
           /\ \E mtype \in {"in", "out"}, qty \in {1, MaxQty} :
                  PostStockMovements(c, 1, mtype, qty, TRUE)
        \/ PostStockMovementsCheck(c)
        \/ PostStockMovementsInsert(c)
        \/ PostStockMovementsUpdate(c)
        \/ PostStockMovementsRespond(c)
        \/ /\ req[c].pc = "idle"
           /\ \E mtype \in {"in", "out"}, qty \in {1, MaxQty} :
                  createStockMovement(c, 1, mtype, qty)
        \/ createStockMovementUpdate(c)
        \/ createStockMovementCommit(c)

SpecConcurrentStock == InitConcurrentSales /\ [][NextConcurrentStock]_vars

\* the signed quantity of a request: + purchase and 'in', - sale and 'out'
Signed(r) ==
    IF r.op \in SaleOps THEN 0 - r.qty
    ELSE IF r.op \in PurchaseOps THEN r.qty
    ELSE stockChange(r.mtype, r.qty)

\* the signed quantities of the operations on product p that succeeded
SucceededOn(p) ==
    [c \in 1..NClients |->
        IF req[c].op \in StockOps /\ req[c].pid = p /\ Succeeded(req[c])
        THEN Signed(req[c]) ELSE 0]

Quiescent == \A c \in Clients : ~InFlight(c)

\* C26: purchases, sales and stock movements on one product run
\* concurrently; once all of them have finished the product's stock is its
\* initial stock plus the signed quantities of exactly the operations that
\* succeeded: no update is lost and none is applied twice.
C26_NoLostUpdate ==
    Quiescent
    => \A p \in ProductIds :
           products[p].exists
           => products[p].stockQuantity
                  = StockedCatalog[p].stockQuantity + Sum(SucceededOn(p))

\* a sale and a purchase of different clients have both succeeded on product 1
C26_Witness ==
    /\ Quiescent
    /\ \E c, d \in Clients :
           /\ req[c].op \in SaleOps /\ Succeeded(req[c]) /\ req[c].pid = 1
           /\ req[d].op \in PurchaseOps /\ Succeeded(req[d]) /\ req[d].pid = 1
    /\ Sum(SucceededOn(1)) # 0

\* C27: in every reachable state of the feed no two notifications have the
\* same id, the two notifications one sale adds and the seeded ones included.
C27_NotificationIdsUnique ==
    \A i, j \in 1..Len(notifications) :
        i # j => notifications[i].id # notifications[j].id

\* C28: dismissNotification on an existing id removes exactly that one
\* notification and leaves the others and their read flags as they were,
\* after which no notification of that id is left in the feed; on an
\* unknown id it answers not-found and leaves the feed unchanged; and
\* mark-read, dismiss and execute-action on an id that is not in the feed
\* answer not-found.
C28_DismissRemovesExactlyOne ==
    [][\A c \in Clients :
           LET id == req'[c].nid
               i == findIndex(notifications, id)
           IN  /\ ( Starts(c, {"dismissNotification"}) /\ i # 0 )
                  => /\ Succeeded(req'[c])
                     /\ notifications' = splice(notifications, i)
                     /\ findIndex(notifications', id) = 0
               /\ ( /\ Starts(c, {"dismissNotification", "markNotificationAsRead",
                                  "executeNotificationAction"})
                    /\ i = 0 )
                  => /\ req'[c].status = "404"
                     /\ notifications' = notifications]_vars

\* the stock of every product that exists before and after the step
StockNotBelow == \A p \in ProductIds :
    (products[p].exists /\ products'[p].exists)
    => products'[p].stockQuantity >= products[p].stockQuantity

StockNotAbove == \A p \in ProductIds :
    (products[p].exists /\ products'[p].exists)
    => products'[p].stockQuantity <= products[p].stockQuantity

\* C29: every purchase, sale and stock movement the server records has a
\* quantity of at least 1, so a step of a purchase or of an 'in' movement
\* never lowers a product's stock and a step of a sale or of an 'out'
\* movement never raises it.
C29_QuantitiesAtLeastOne ==
    [][/\ \A i \in 1..Len(purchases') : purchases'[i].quantityReceived >= 1
       /\ \A i \in 1..Len(sales') : sales'[i].quantitySold >= 1
       /\ \A i \in 1..Len(stockMovements') : stockMovements'[i].quantity >= 1
       /\ \A c \in Clients :
              /\ ( /\ Steps(c) /\ InFlight(c)
                   /\ \/ req[c].op \in PurchaseOps
                      \/ req[c].op \in MovementOps /\ req[c].mtype = "in" )
                 => StockNotBelow
              /\ ( /\ Steps(c) /\ InFlight(c)
                   /\ \/ req[c].op \in SaleOps
                      \/ req[c].op \in MovementOps /\ req[c].mtype = "out" )
                 => StockNotAbove]_vars

(***************************************************************************)
(* POST /api/purchases, one request after the other, by a client signed in *)
(* as the admin, as the employee, or not at all.                           *)
(***************************************************************************)
InitPurchasesGate == SignedIn({FirstClient})

NextPurchasesGate == \E c \in {FirstClient} : PurchaseRoute(c)

SpecPurchasesGate == InitPurchasesGate /\ [][NextPurchasesGate]_vars

\* the condition of the Purchases page and of its sidebar link
MayPurchase(user) ==
    user # 0 /\ (users[user].role = "admin" \/ "purchases" \in users[user].permissions)

\* C30: POST /api/purchases by a signed-in user who is neither an admin nor
\* a holder of 'purchases' is denied, records no purchase and changes no
\* stock; a purchase row is only ever written, and stock only ever changed,
\* for an admin or a holder of 'purchases'.
C30_PurchasesPermission ==
    [][\A c \in Clients :
          /\ (Starts(c, {"postPurchases"}) /\ Authenticated(c) /\ ~MayPurchase(sessions[c]))
             => /\ req'[c].pc = "done" /\ req'[c].status = "403"
                /\ purchases' = purchases /\ products' = products
          /\ (Steps(c) /\ req[c].op = "postPurchases" /\ InFlight(c)
                 /\ (purchases' # purchases \/ products' # products))
             => MayPurchase(req[c].user)]_vars

====
